---- MODULE Spec2Model ----
(***************************************************************************)
(* askc: the query-streaming orchestrator (run_interactive), the usage log *)
(* store (log_query) and the post-answer interaction                       *)
(* (handle_script_interaction) of src/askc/app.py and src/askc/db.py.      *)
(*                                                                         *)
(* Python strings are TLA+ strings (Len, SubSeq and \o act on them).       *)
(* An optional value (None or a value) is a sequence of length at most 1.  *)
(* A dict is a function; an object is a record and getattr(o, a, default)  *)
(* looks a up in its DOMAIN.  Non-ASCII characters of the console markup   *)
(* are written in ASCII ("->" for the arrow, "$" for the money bag).       *)
(***************************************************************************)
EXTENDS Integers, Sequences, FiniteSets, TLC

\* ------------------------------------------------------------------ bounds
\* messages the agent stream may yield in one query
MaxMsgs == 3
\* lines read at the choice prompt in one interaction
MaxPrompts == 3
\* lines read at the choice prompt in a whole run
MaxRunPrompts == 2
\* length of the longest argument shown in a status text
MaxStatusLen == 34
\* messages of a stream that only sets status texts
MaxStatusMsgs == 1

\* ------------------------------------------------------------ python values
None == <<>>
Some(v) == <<v>>
IsNone(o) == o = <<>>
Val(o) == o[1]

\* d.get(k)
Get(d, k) == IF k \in DOMAIN d THEN Some(d[k]) ELSE None
\* d.get(k, default)
GetOr(d, k, default) == IF k \in DOMAIN d THEN d[k] ELSE default
\* bool(s) for an optional string: None and "" are falsy
TruthyStr(o) == ~IsNone(o) /\ Val(o) # ""

\* s[:n]
Prefix(s, n) == SubSeq(s, 1, IF Len(s) < n THEN Len(s) ELSE n)
\* s[i:]
Suffix(s, i) == SubSeq(s, i, Len(s))
CharAt(s, i) == SubSeq(s, i, i)
StartsWith(s, p) == Len(s) >= Len(p) /\ SubSeq(s, 1, Len(p)) = p
\* p in s
Contains(s, p) == \E i \in 1..(Len(s) - Len(p) + 1) : SubSeq(s, i, i + Len(p) - 1) = p

IsSpace(c) == c \in {" ", "\n", "\t"}

RECURSIVE LStrip(_)
LStrip(s) == IF s # "" /\ IsSpace(CharAt(s, 1)) THEN LStrip(Suffix(s, 2)) ELSE s

RECURSIVE RStrip(_)
RStrip(s) == IF s # "" /\ IsSpace(CharAt(s, Len(s))) THEN RStrip(Prefix(s, Len(s) - 1)) ELSE s

\* str.strip()
Strip(s) == RStrip(LStrip(s))

LowerChar(c) ==
    CASE c = "R" -> "r" [] c = "P" -> "p" [] c = "A" -> "a" [] c = "S" -> "s"
      [] c = "Q" -> "q" [] c = "X" -> "x" [] OTHER -> c

RECURSIVE Lower(_)
\* str.lower()
Lower(s) == IF s = "" THEN "" ELSE LowerChar(CharAt(s, 1)) \o Lower(Suffix(s, 2))

RECURSIVE FirstLine(_)
\* s.split("\n")[0]
FirstLine(s) ==
    IF s = "" \/ CharAt(s, 1) = "\n" THEN "" ELSE CharAt(s, 1) \o FirstLine(Suffix(s, 2))

\* len(s.split("\n")) > 1
HasManyLines(s) == Contains(s, "\n")

\* -------------------------------------------------------- program constants
\* the first two of the pool of 50 phrases (a longer pool only multiplies the
\* status texts a StructuredOutput invocation can leave)
FINISHING_MESSAGES == <<"Wrapping up", "Almost there">>

SPINNER_STYLES ==
    <<"dots", "dots2", "dots3", "line", "arc", "moon", "arrow3", "bouncingBar">>

\* question[:500] in log_query
QuestionLimit == 500
\* first output line of a shell result, lines[0][:60]
PreviewLimit == 60
\* cmd[:40] in the output preview
CmdPreviewLimit == 40
\* limits of get_tool_status
BashLimit == 30
PatternLimit == 20
QueryLimit == 25
UrlLimit == 30

\* ---------------------------------------------------------- pure functions
\* variant: nothing is cut, the marker is appended to the whole string
TruncateKeepsAll(s, limit) == IF Len(s) > limit THEN s \o "..." ELSE s

\* s[:limit] + "..." if len(s) > limit else s
Truncate(s, limit) == IF Len(s) > limit THEN Prefix(s, limit) \o "..." ELSE s

RECURSIVE LastSegment(_)
\* path.split("/")[-1]
LastSegment(s) ==
    IF Contains(s, "/")
    THEN LastSegment(Suffix(s, 1 + CHOOSE i \in 1..Len(s) : CharAt(s, i) = "/"
                                       /\ \A j \in 1..(i - 1) : CharAt(s, j) # "/"))
    ELSE s

\* get_tool_status(name, tool_input)[0]; pick is random.choice's draw
get_tool_status(name, tool_input, pick) ==
    CASE name = "StructuredOutput" ->
           "[bold cyan]" \o FINISHING_MESSAGES[pick] \o "...[/]"
      [] name = "Bash" ->
           "[bold green]Running[/] [dim]("
              \o Truncate(GetOr(tool_input, "command", ""), BashLimit) \o ")[/]"
      [] name = "Read" ->
           "[bold cyan]Reading[/] [dim]("
              \o LastSegment(GetOr(tool_input, "file_path", "")) \o ")[/]"
      [] name \in {"Glob", "Grep"} ->
           "[bold yellow]Searching[/] [dim]("
              \o Truncate(GetOr(tool_input, "pattern", ""), PatternLimit) \o ")[/]"
      [] name = "WebSearch" ->
           "[bold magenta]Web search[/] [dim]("
              \o Truncate(GetOr(tool_input, "query", ""), QueryLimit) \o ")[/]"
      [] name = "WebFetch" ->
           "[bold magenta]Fetching[/] [dim]("
              \o Truncate(GetOr(tool_input, "url", ""), UrlLimit) \o ")[/]"
      [] OTHER -> "[bold yellow]" \o name \o "...[/]"

\* the draws random.choice can make for a tool name
Picks(name) == IF name = "StructuredOutput" THEN 1..Len(FINISHING_MESSAGES) ELSE {1}

detect_language(script) ==
    IF StartsWith(Strip(script), "#!/usr/bin/env python")
         \/ StartsWith(Strip(script), "#!/usr/bin/python")
    THEN "python"
    ELSE IF StartsWith(Strip(script), "#!") \/ StartsWith(Strip(script), "#!/bin/bash")
    THEN "bash"
    ELSE IF Contains(script, "def ") \/ Contains(script, "import ")
    THEN "python"
    ELSE "bash"

\* the line printed for a completed shell call with a non-empty text output
OutputPreview(cmd, output) ==
    LET first == FirstLine(Strip(output))
        preview == Prefix(first, PreviewLimit)
                     \o (IF HasManyLines(Strip(output)) \/ Len(first) > PreviewLimit
                         THEN "..." ELSE "")
    IN "[dim]  $ " \o Prefix(cmd, CmdPreviewLimit)
         \o (IF Len(cmd) > CmdPreviewLimit THEN "..." ELSE "")
         \o " -> " \o preview \o "[/dim]"

Digit(d) == SubSeq("0123456789", d + 1, d + 1)

RECURSIVE Decimal(_)
Decimal(n) == IF n < 10 THEN Digit(n) ELSE Decimal(n \div 10) \o Digit(n % 10)

\* f"{cost:.4f}" of a cost held in units of 0.0001 USD
FormatCost(c) ==
    Decimal(c \div 10000) \o "." \o Digit((c \div 1000) % 10) \o Digit((c \div 100) % 10)
        \o Digit((c \div 10) % 10) \o Digit(c % 10)

\* ------------------------------------------------------- the agent's events
ToolUse(id, name, input) ==
    [type |-> "ToolUseBlock", id |-> id, name |-> name, input |-> input]
ToolResult(tool_use_id, content) ==
    [type |-> "ToolResultBlock", tool_use_id |-> tool_use_id, content |-> content]
\* a ToolResultBlock's content is a string, a list of content blocks or None
Text(s) == [str |-> s]
ListContent == [list |-> <<"text">>]

LongCmd == "find . -name '*.py' -newer setup.py -print | sort"
LongLine == "0123456789012345678901234567890123456789012345678901234567890123456789"

BashLs == ToolUse("t1", "Bash", [command |-> "ls -la"])
BashFind == ToolUse("t1", "Bash", [command |-> LongCmd])
BashPwd == ToolUse("t2", "Bash", [command |-> "pwd"])
BashNoId == ToolUse("", "Bash", [command |-> "id"])
ReadHosts == ToolUse("t3", "Read", [file_path |-> "/etc/hosts"])
Finishing == ToolUse("t4", "StructuredOutput", [answer |-> "Found 2 files"])
Frobnicate == ToolUse("t5", "Frob", <<>>)
TextBlock == [type |-> "TextBlock", text |-> "Let me look."]

ResultLs == ToolResult("t1", Text("file1\nfile2"))
ResultLong == ToolResult("t1", Text(LongLine))
ResultEmpty == ToolResult("t1", Text(""))
ResultList == ToolResult("t1", ListContent)
ResultPwd == ToolResult("t2", Text("/root\n"))
ResultRead == ToolResult("t3", Text("127.0.0.1 localhost"))
\* a result block without a call id
ResultNoId == [type |-> "ToolResultBlock", content |-> Text("orphan")]

AssistantMessage(content) == [cls |-> "AssistantMessage", content |-> content]
UserMessage(content) == [cls |-> "UserMessage", content |-> content]
SystemMessage == [cls |-> "SystemMessage"]
\* the SDK's ResultMessage: structured_output and total_cost_usd are optional
ResultMessage(structured_output, total_cost_usd) ==
    [cls |-> "ResultMessage", structured_output |-> structured_output,
     total_cost_usd |-> total_cost_usd]

BashScript == "#!/bin/bash\necho hi\nls"
PyScript == "import os\nprint(os.getcwd())"
\* a marker with the second python prefix
SysPyScript == "#!/usr/bin/python3\nprint(1)"
\* a shell script whose body holds the import keyword
ShKeywordScript == "#!/bin/sh\nimport -window root shot.png"
\* a function definition and no marker
DefScript == "def f():\n    return 1\nprint(f())"
\* a marker that names a python interpreter under another path
LocalPyScript == "#!/usr/local/bin/python3\nprint(1)"

OutCommand == [answer |-> "Found 2 files", suggested_command |-> "ls -la"]
OutBoth ==
    [answer |-> "Use the script", suggested_command |-> "ls -la",
     suggested_script |-> BashScript]
OutAnswer == [answer |-> "42"]
OutScript == [answer |-> "Run this", suggested_script |-> PyScript]
OutEmptyScript ==
    [answer |-> "Try ls", suggested_command |-> "ls", suggested_script |-> ""]
EmptyDict == <<>>

\* costs are held in units of 0.0001 USD: 20 is 0.002 USD
ResultMessages ==
    { ResultMessage(Some(EmptyDict), Some(20)),
      ResultMessage(Some(OutCommand), Some(20)),
      ResultMessage(Some(OutBoth), Some(20)),
      ResultMessage(Some(OutAnswer), Some(0)),
      ResultMessage(Some(OutScript), None),
      ResultMessage(Some(OutEmptyScript), Some(15)) }

\* the messages of a whole run
Messages ==
    { AssistantMessage(<<TextBlock, BashLs>>),
      UserMessage(<<ResultLs>>) } \cup ResultMessages

\* the messages of the streaming loop alone
StreamMessages ==
    { AssistantMessage(<<BashLs>>),
      AssistantMessage(<<BashFind>>),
      AssistantMessage(<<BashLs, BashFind>>),
      AssistantMessage(<<BashPwd>>),
      AssistantMessage(<<BashNoId>>),
      AssistantMessage(<<TextBlock, ReadHosts>>),
      AssistantMessage(<<Finishing>>),
      AssistantMessage(<<Frobnicate, BashLs, ReadHosts>>),
      AssistantMessage(<<BashPwd, ReadHosts, Finishing, Frobnicate>>),
      UserMessage(<<ResultLs>>),
      UserMessage(<<ResultLong>>),
      UserMessage(<<ResultEmpty>>),
      UserMessage(<<ResultList>>),
      UserMessage(<<ResultPwd, ResultPwd>>),
      UserMessage(<<ResultRead>>),
      UserMessage(<<ResultNoId>>),
      SystemMessage,
      ResultMessage(None, Some(20)),
      ResultMessage(Some(EmptyDict), Some(20)),
      ResultMessage(Some(OutCommand), Some(20)),
      ResultMessage(Some(OutScript), None) }

RECURSIVE Repeat(_, _)
Repeat(s, n) == IF n = 0 THEN "" ELSE s \o Repeat(s, n - 1)

\* a short question and one of 505 characters
Questions == {"list files here", Repeat("why? ", 101)}

\* -------------------------------------------------------------------- state
VARIABLES
    pc,             \* where the run is
    question,       \* run_interactive's argument
    n_msgs,         \* messages the stream has yielded
    msg,            \* the message of the current loop iteration
    bi,             \* index of the content block being dispatched
    history,        \* the messages the stream has yielded, in order
    result,         \* QueryResult | None
    cost,           \* float | None
    spinner_idx,
    status,         \* the live status line: text and spinner style
    bash_tool_ids,  \* tool_use_id -> command
    printed,        \* lines written to the console
    db,             \* rows of the queries table
    script,         \* handle_script_interaction's argument
    is_multiline,   \* handle_script_interaction's argument
    n_prompts,      \* lines read at the choice prompt
    raw_input,      \* the last line read at the choice prompt
    spawned,        \* child processes run
    files,          \* files written
    nested          \* prompts of the nested agent queries

vars ==
    <<pc, question, n_msgs, msg, bi, history, result, cost, spinner_idx, status,
      bash_tool_ids, printed, db, script, is_multiline, n_prompts, raw_input, spawned,
      files, nested>>

stream_vars == <<n_msgs, msg, bi, history>>
query_vars == <<result, cost, spinner_idx, status, bash_tool_ids>>
interaction_vars == <<script, is_multiline, n_prompts, raw_input>>
effect_vars == <<spawned, files, nested>>

NoMsg == [cls |-> "none"]

\* the locals of run_interactive before the stream is opened
InitQuery ==
    /\ n_msgs = 0
    /\ msg = NoMsg
    /\ bi = 0
    /\ history = <<>>
    /\ result = None
    /\ cost = None
    /\ spinner_idx = 0
    /\ status = [text |-> "[bold cyan]Thinking...", spinner |-> SPINNER_STYLES[1]]
    /\ bash_tool_ids = <<>>
    /\ printed = <<>>
    /\ db = <<>>
    /\ n_prompts = 0
    /\ raw_input = None
    /\ spawned = <<>>
    /\ files = <<>>
    /\ nested = <<>>

Init ==
    /\ pc = "stream"
    /\ question \in Questions
    /\ script = ""
    /\ is_multiline = FALSE
    /\ InitQuery

\* --------------------------------------------------- the streaming loop
\* getattr(o, a, default) for an optional attribute
GetAttr(o, a) == IF a \in DOMAIN o THEN Some(o[a]) ELSE None

\* getattr(message, "content", [])
Content(m) == IF "content" \in DOMAIN m THEN m.content ELSE <<>>

\* variant: the modulus is one short of the list's length
SpinnerNextShort(i) == (i + 1) % (Len(SPINNER_STYLES) - 1)

\* spinner_idx = (spinner_idx + 1) % len(SPINNER_STYLES)
SpinnerNext(i) == (i + 1) % Len(SPINNER_STYLES)

\* d[k] = v
DictSet(d, k, v) == [x \in DOMAIN d \cup {k} |-> IF x = k THEN v ELSE d[x]]

\* variant: the invocation of any tool is registered
RegisterAnyTool(ids, tool_name, tool_id, tool_input) ==
    IF TruthyStr(tool_id)
    THEN DictSet(ids, Val(tool_id), GetOr(tool_input, "command", ""))
    ELSE ids

\* variant: an id already registered keeps its first command (setdefault)
RegisterFirstWins(ids, tool_name, tool_id, tool_input) ==
    IF tool_name = "Bash" /\ TruthyStr(tool_id) /\ Val(tool_id) \notin DOMAIN ids
    THEN DictSet(ids, Val(tool_id), GetOr(tool_input, "command", ""))
    ELSE ids

\* if tool_name == "Bash": tool_id = ...; if tool_id: bash_tool_ids[tool_id] = command
Register(ids, tool_name, tool_id, tool_input) ==
    IF tool_name = "Bash" /\ TruthyStr(tool_id)
    THEN DictSet(ids, Val(tool_id), GetOr(tool_input, "command", ""))
    ELSE ids

\* tool_use_id in bash_tool_ids
Matches(ids, tool_use_id) == ~IsNone(tool_use_id) /\ Val(tool_use_id) \in DOMAIN ids

\* variant: the entry is read (get) and not removed
PopKeeps(ids, k) == ids

\* the mapping bash_tool_ids.pop(k) leaves
Pop(ids, k) == [x \in DOMAIN ids \ {k} |-> ids[x]]

\* output and isinstance(output, str)
IsText(content) == "str" \in DOMAIN content /\ content.str # ""

\* variant: the output of every tool result is shown, matched or not
ResultLinesUnmatched(ids, tool_use_id, content) ==
    IF IsText(content)
    THEN <<OutputPreview(IF Matches(ids, tool_use_id) THEN ids[Val(tool_use_id)] ELSE "",
                         content.str)>>
    ELSE <<>>

\* the lines a ToolResultBlock prints
ResultLines(ids, tool_use_id, content) ==
    IF Matches(ids, tool_use_id) /\ IsText(content)
    THEN <<OutputPreview(ids[Val(tool_use_id)], content.str)>>
    ELSE <<>>

\* variant: the attribute is tested for None only, so an empty dict is captured
HasStructuredOutputNotNone(m) ==
    "structured_output" \in DOMAIN m /\ ~IsNone(m.structured_output)

\* hasattr(message, "structured_output") and message.structured_output
HasStructuredOutput(m) ==
    /\ "structured_output" \in DOMAIN m
    /\ ~IsNone(m.structured_output)
    /\ DOMAIN Val(m.structured_output) # {}

QueryResult(out) ==
    [answer |-> GetOr(out, "answer", ""),
     suggested_command |-> Get(out, "suggested_command"),
     suggested_script |-> Get(out, "suggested_script")]

\* async for message in query(...): the stream yields a message
Recv(m) ==
    /\ pc = "stream"
    /\ n_msgs < MaxMsgs
    /\ n_msgs' = n_msgs + 1
    /\ msg' = m
    /\ history' = Append(history, m)
    /\ IF m.cls \in {"AssistantMessage", "UserMessage"} /\ Len(Content(m)) > 0
       THEN pc' = "block" /\ bi' = 1
       ELSE pc' = "capture" /\ bi' = 0
    /\ UNCHANGED <<question, query_vars, printed, db, interaction_vars, effect_vars>>

\* for block in content: the next block, or the end of the loop
NextBlock ==
    IF bi < Len(Content(msg))
    THEN pc' = "block" /\ bi' = bi + 1
    ELSE pc' = "capture" /\ bi' = 0

\* a ToolUseBlock of the message
ToolUseBlock ==
    /\ pc = "block"
    /\ Content(msg)[bi].type = "ToolUseBlock"
    /\ LET block == Content(msg)[bi]
           tool_name == IF "name" \in DOMAIN block THEN block.name ELSE "tool"
           tool_input == IF "input" \in DOMAIN block THEN block.input ELSE <<>>
       IN /\ spinner_idx' = SpinnerNext(spinner_idx)
          /\ \E pick \in Picks(tool_name) :
                status' = [text |-> get_tool_status(tool_name, tool_input, pick),
                           spinner |-> SPINNER_STYLES[spinner_idx' + 1]]
          /\ bash_tool_ids' =
                Register(bash_tool_ids, tool_name, GetAttr(block, "id"), tool_input)
    /\ NextBlock
    /\ UNCHANGED <<question, n_msgs, msg, history, result, cost, printed, db,
                   interaction_vars, effect_vars>>

\* a ToolResultBlock of the message
ToolResultBlock ==
    /\ pc = "block"
    /\ Content(msg)[bi].type = "ToolResultBlock"
    /\ LET block == Content(msg)[bi]
           tool_use_id == GetAttr(block, "tool_use_id")
           output == IF "content" \in DOMAIN block THEN block.content ELSE Text("")
       IN /\ printed' = printed \o ResultLines(bash_tool_ids, tool_use_id, output)
          /\ bash_tool_ids' =
                IF Matches(bash_tool_ids, tool_use_id)
                THEN Pop(bash_tool_ids, Val(tool_use_id))
                ELSE bash_tool_ids
    /\ NextBlock
    /\ UNCHANGED <<question, n_msgs, msg, history, result, cost, spinner_idx, status, db,
                   interaction_vars, effect_vars>>

\* any other block
OtherBlock ==
    /\ pc = "block"
    /\ Content(msg)[bi].type \notin {"ToolUseBlock", "ToolResultBlock"}
    /\ NextBlock
    /\ UNCHANGED <<question, n_msgs, msg, history, query_vars, printed, db,
                   interaction_vars, effect_vars>>

\* if hasattr(message, "structured_output") and message.structured_output: ...
CaptureResult ==
    /\ pc = "capture"
    /\ HasStructuredOutput(msg)
    /\ result' = Some(QueryResult(Val(msg.structured_output)))
    /\ cost' = IF "total_cost_usd" \in DOMAIN msg THEN msg.total_cost_usd ELSE None
    /\ pc' = "stream"
    /\ UNCHANGED <<question, stream_vars, spinner_idx, status, bash_tool_ids, printed, db,
                   interaction_vars, effect_vars>>

\* a message without a structured output
NoStructuredOutput ==
    /\ pc = "capture"
    /\ ~HasStructuredOutput(msg)
    /\ pc' = "stream"
    /\ UNCHANGED <<question, stream_vars, query_vars, printed, db, interaction_vars,
                   effect_vars>>

\* the stream is exhausted
StreamEnd ==
    /\ pc = "stream"
    /\ pc' = "render"
    /\ UNCHANGED <<question, stream_vars, query_vars, printed, db, interaction_vars,
                   effect_vars>>

NextStream ==
    \/ \E m \in StreamMessages : Recv(m)
    \/ ToolUseBlock
    \/ ToolResultBlock
    \/ OtherBlock
    \/ CaptureResult
    \/ NoStructuredOutput
    \/ StreamEnd

SpecStream == Init /\ [][NextStream]_vars

\* the tools whose status text shows a truncated argument, with the key of
\* the argument in the tool input
StatusTools ==
    { <<"Bash", "command">>, <<"Grep", "pattern">>, <<"Glob", "pattern">>,
      <<"WebSearch", "query">>, <<"WebFetch", "url">> }

\* one tool invocation per tool and per argument length
StatusMessages ==
    { AssistantMessage(<<ToolUse("t1", t[1], [k \in {t[2]} |-> Prefix(LongLine, n)])>>) :
        t \in StatusTools, n \in 0..MaxStatusLen }

\* the streaming loop over tool invocations alone
NextStatus ==
    \/ \E m \in StatusMessages : n_msgs < MaxStatusMsgs /\ Recv(m)
    \/ ToolUseBlock
    \/ NoStructuredOutput
    \/ StreamEnd

SpecStatus == Init /\ [][NextStatus]_vars

\* ------------------------------------------------------- the usage log store
\* log_query: the row it inserts (the timestamp is left out) and its id
log_query(rows, cost_usd, q, answer, log_events, suggested) ==
    Append(rows,
           [id |-> Len(rows) + 1,
            cost_usd |-> cost_usd,
            question |-> Prefix(q, QuestionLimit),
            answer |-> answer,
            log |-> IF IsNone(log_events) THEN <<>> ELSE Val(log_events),
            suggested |-> suggested,
            script_run |-> 0])

\* mark_script_run: UPDATE queries SET script_run = 1 WHERE id = query_id.
\* app.py has no call of it, so no action applies it.
mark_script_run(rows, query_id) ==
    [i \in DOMAIN rows |->
        IF rows[i].id = query_id THEN [rows[i] EXCEPT !.script_run = 1]
                                 ELSE rows[i]]

\* ------------------------------------------------------ after the stream
\* rich's Markdown(text) renderable
Markdown(text) == "<markdown>" \o text
\* rich's Syntax(code, lang, ...) renderable
Syntax(code, lang) == "<syntax " \o lang \o ">" \o code

\* a or b, for optional strings
Or(a, b) == IF TruthyStr(a) THEN a ELSE b

\* variant: the command is preferred to the script
SuggestedActionCommandFirst(r) == Or(r.suggested_command, r.suggested_script)

\* script = result.suggested_script or result.suggested_command
SuggestedAction(r) == Or(r.suggested_script, r.suggested_command)

\* is_script = bool(result.suggested_script)
IsScript(r) == TruthyStr(r.suggested_script)

\* variant: the answer is not printed before the cost is shown and logged
RenderAnswerLater ==
    /\ pc = "render"
    /\ ~IsNone(result)
    /\ printed' = Append(printed, "")
    /\ pc' = "log"
    /\ UNCHANGED <<question, stream_vars, query_vars, db, interaction_vars, effect_vars>>

\* console.print(); if result: console.print(Markdown(result.answer)); console.print()
RenderAnswer ==
    /\ pc = "render"
    /\ ~IsNone(result)
    /\ printed' = printed \o <<"", Markdown(Val(result).answer), "">>
    /\ pc' = "log"
    /\ UNCHANGED <<question, stream_vars, query_vars, db, interaction_vars, effect_vars>>

\* else: console.print("[red]No response received[/red]")
NoResponse ==
    /\ pc = "render"
    /\ IsNone(result)
    /\ printed' = printed \o <<"", "[red]No response received[/red]">>
    /\ pc' = "done"
    /\ UNCHANGED <<question, stream_vars, query_vars, db, interaction_vars, effect_vars>>

CostLine(c) == "[dim]  $ $" \o FormatCost(c) \o "[/dim]"

\* if cost is not None: print the cost; log_query(cost, question)
LogCost ==
    /\ pc = "log"
    /\ ~IsNone(cost)
    /\ printed' = Append(printed, CostLine(Val(cost)))
    /\ db' = log_query(db, Val(cost), question, "", None, "")
    /\ pc' = "interact"
    /\ UNCHANGED <<question, stream_vars, query_vars, interaction_vars, effect_vars>>

\* log_query raises (the store cannot be opened or written): run_interactive
\* propagates the exception
LogQueryRaises ==
    /\ pc = "log"
    /\ ~IsNone(cost)
    /\ printed' = Append(printed, CostLine(Val(cost)))
    /\ pc' = "raised"
    /\ UNCHANGED <<question, stream_vars, query_vars, db, interaction_vars, effect_vars>>

\* cost is None: nothing is logged
SkipLog ==
    /\ pc = "log"
    /\ IsNone(cost)
    /\ pc' = "interact"
    /\ UNCHANGED <<question, stream_vars, query_vars, printed, db, interaction_vars,
                   effect_vars>>

\* if script: await handle_script_interaction(script, is_script)
EnterInteraction ==
    /\ pc = "interact"
    /\ TruthyStr(SuggestedAction(Val(result)))
    /\ script' = Val(SuggestedAction(Val(result)))
    /\ is_multiline' = IsScript(Val(result))
    /\ pc' = "handle"
    /\ UNCHANGED <<question, stream_vars, query_vars, printed, db, n_prompts, raw_input,
                   effect_vars>>

\* no suggested action: run_interactive returns
NoSuggestion ==
    /\ pc = "interact"
    /\ ~TruthyStr(SuggestedAction(Val(result)))
    /\ pc' = "done"
    /\ UNCHANGED <<question, stream_vars, query_vars, printed, db, interaction_vars,
                   effect_vars>>

\* ------------------------------------------- handle_script_interaction
\* the lines the user may type at the choice prompt
RawInputs == {"r", "p", "a", "s", "q", "", " Q\n", "x", "S", "rq"}
\* the lines typed in a whole run
RunInputs == {"r", "p", "a", "s", " Q\n"}
\* the lines the user may type at save_script's path prompt
PathInputs == {"", " out.sh "}
\* what the nested agent query of analyze_script may yield
AnalyzeStreams ==
    { <<>>,
      <<[cls |-> "AssistantMessage", content |-> <<TextBlock>>],
        [cls |-> "ResultMessage", result |-> "Safety: 9/10, read-only."]>> }
\* exit statuses of the child process
ReturnCodes == {0, 1}
\* the arguments handle_script_interaction is called with
ScriptArgs ==
    {"ls -la", BashScript, PyScript, "  #!/usr/bin/env python3\nprint(1)",
     SysPyScript, ShKeywordScript, DefScript, LocalPyScript}

\* variant: the line is stripped and not lower-cased
NormalizeNoLower(raw) == Strip(raw)

\* console.input(...).strip().lower()
Normalize(raw) == Lower(Strip(raw))

\* variant: preview and save are offered whatever the mode
BranchAnyMode(choice, multiline) ==
    IF choice = "r" THEN "run"
    ELSE IF choice = "p" THEN "preview"
    ELSE IF choice = "a" THEN "analyze"
    ELSE IF choice = "s" THEN "save"
    ELSE IF choice = "q" \/ choice = "" THEN "quit"
    ELSE "invalid"

\* the branch of the if/elif chain a choice takes
Branch(choice, multiline) ==
    IF choice = "r" THEN "run"
    ELSE IF choice = "p" /\ multiline THEN "preview"
    ELSE IF choice = "a" THEN "analyze"
    ELSE IF choice = "s" /\ multiline THEN "save"
    ELSE IF choice = "q" \/ choice = "" THEN "quit"
    ELSE "invalid"

\* the first lines of handle_script_interaction
Header ==
    /\ pc = "handle"
    /\ printed' = Append(printed,
                         IF is_multiline
                         THEN "[dim]  -> script ready[/dim]"
                         ELSE "[dim]  -> [yellow]" \o script \o "[/yellow][/dim]")
    /\ pc' = "prompt"
    /\ UNCHANGED <<question, stream_vars, query_vars, db, interaction_vars, effect_vars>>

\* one iteration of the loop reads a line: console.print(); choice = console.input(...)
Reads(raw, limit, branch) ==
    /\ pc = "prompt"
    /\ n_prompts < limit
    /\ Branch(Normalize(raw), is_multiline) = branch
    /\ n_prompts' = n_prompts + 1
    /\ raw_input' = Some(raw)
    /\ UNCHANGED <<question, stream_vars, query_vars, db, script, is_multiline>>

Interpreter(lang) == IF lang = "python" THEN "python" ELSE "bash"

\* the lines run_script prints for an exit status
RunLines(lang, returncode) ==
    <<"[dim]Running " \o lang \o " script...[/dim]\n">>
      \o (IF returncode # 0
          THEN <<"\n[red]Script exited with code " \o Decimal(returncode) \o "[/red]">>
          ELSE <<>>)

\* run_script(script): the child process (its argv and its exit status) and
\* the lines printed
RunScript(s) ==
    LET lang == detect_language(s)
    IN \E returncode \in ReturnCodes :
          /\ spawned' = Append(spawned, [argv |-> <<Interpreter(lang), "-c", s>>,
                                         returncode |-> returncode])
          /\ printed' = printed \o <<"">> \o RunLines(lang, returncode)

\* variant: the loop goes on after the script has run (no break)
ChoiceRunNoBreak(raw, limit) ==
    /\ Reads(raw, limit, "run")
    /\ RunScript(script)
    /\ pc' = "prompt"
    /\ UNCHANGED <<files, nested>>

\* choice == "r": run_script(script); break
ChoiceRun(raw, limit) ==
    /\ Reads(raw, limit, "run")
    /\ RunScript(script)
    /\ pc' = "done"
    /\ UNCHANGED <<files, nested>>

\* choice == "p" and is_multiline: preview_script(script)
ChoicePreview(raw, limit) ==
    /\ Reads(raw, limit, "preview")
    /\ printed' = printed \o <<"", "", Syntax(script, detect_language(script)), "">>
    /\ pc' = "prompt"
    /\ UNCHANGED effect_vars

\* the prompt of analyze_script (its fixed middle abridged, the code fence
\* written <fence>)
AnalyzePrompt(s) ==
    LET lang == detect_language(s)
    IN "Analyze this " \o lang \o " script for safety. [...]\n\n<fence>" \o lang \o "\n"
         \o s \o "\n<fence>"

RECURSIVE AnalyzeLines(_)
\* what analyze_script prints for the messages of the nested stream
AnalyzeLines(messages) ==
    IF messages = <<>> THEN <<>>
    ELSE (IF "result" \in DOMAIN Head(messages)
          THEN <<"", Markdown(Head(messages).result), "">>
          ELSE <<>>) \o AnalyzeLines(Tail(messages))

\* variant: the nested query is logged like an outer one
ChoiceAnalyzeLogged(raw, limit) ==
    /\ pc = "prompt"
    /\ n_prompts < limit
    /\ Branch(Normalize(raw), is_multiline) = "analyze"
    /\ n_prompts' = n_prompts + 1
    /\ raw_input' = Some(raw)
    /\ nested' = Append(nested, [prompt |-> AnalyzePrompt(script), allowed_tools |-> <<>>])
    /\ \E messages \in AnalyzeStreams :
          printed' = printed \o <<"">> \o AnalyzeLines(messages)
    /\ db' = log_query(db, 0, AnalyzePrompt(script), "", None, "")
    /\ pc' = "prompt"
    /\ UNCHANGED <<question, stream_vars, query_vars, script, is_multiline, spawned, files>>

\* choice == "a": await analyze_script(script)
ChoiceAnalyze(raw, limit) ==
    /\ Reads(raw, limit, "analyze")
    /\ nested' = Append(nested, [prompt |-> AnalyzePrompt(script), allowed_tools |-> <<>>])
    /\ \E messages \in AnalyzeStreams :
          printed' = printed \o <<"">> \o AnalyzeLines(messages)
    /\ pc' = "prompt"
    /\ UNCHANGED <<spawned, files>>

\* the path save_script writes to
SavePath(s, path_raw) ==
    IF Strip(path_raw) = ""
    THEN "script" \o (IF detect_language(s) = "python" THEN ".py" ELSE ".sh")
    ELSE Strip(path_raw)

\* choice == "s" and is_multiline: save_script(script); break
ChoiceSave(raw, limit) ==
    /\ Reads(raw, limit, "save")
    /\ \E path_raw \in PathInputs :
          /\ files' = Append(files, [path |-> SavePath(script, path_raw), text |-> script])
          /\ printed' = printed \o
                <<"", "[green]Saved to " \o SavePath(script, path_raw) \o "[/green]">>
    /\ pc' = "done"
    /\ UNCHANGED <<spawned, nested>>

\* choice == "q" or choice == "": break
ChoiceQuit(raw, limit) ==
    /\ Reads(raw, limit, "quit")
    /\ printed' = Append(printed, "")
    /\ pc' = "done"
    /\ UNCHANGED effect_vars

\* else: console.print("[dim]Invalid choice[/dim]")
ChoiceInvalid(raw, limit) ==
    /\ Reads(raw, limit, "invalid")
    /\ printed' = printed \o <<"", "[dim]Invalid choice[/dim]">>
    /\ pc' = "prompt"
    /\ UNCHANGED effect_vars

\* ------------------------------------------------------------ specifications
\* a whole run of run_interactive
Next ==
    \/ \E m \in Messages : Recv(m)
    \/ ToolUseBlock
    \/ ToolResultBlock
    \/ OtherBlock
    \/ CaptureResult
    \/ NoStructuredOutput
    \/ StreamEnd
    \/ RenderAnswer
    \/ NoResponse
    \/ LogCost
    \/ LogQueryRaises
    \/ SkipLog
    \/ EnterInteraction
    \/ NoSuggestion
    \/ Header
    \/ \E raw \in RunInputs : ChoiceRun(raw, MaxRunPrompts)
    \/ \E raw \in RunInputs : ChoicePreview(raw, MaxRunPrompts)
    \/ \E raw \in RunInputs : ChoiceAnalyze(raw, MaxRunPrompts)
    \/ \E raw \in RunInputs : ChoiceSave(raw, MaxRunPrompts)
    \/ \E raw \in RunInputs : ChoiceQuit(raw, MaxRunPrompts)
    \/ \E raw \in RunInputs : ChoiceInvalid(raw, MaxRunPrompts)

Spec == Init /\ [][Next]_vars

\* a call of handle_script_interaction
InitInteract ==
    /\ pc = "handle"
    /\ question \in Questions
    /\ script \in ScriptArgs
    /\ is_multiline \in BOOLEAN
    /\ InitQuery

NextInteract ==
    \/ Header
    \/ \E raw \in RawInputs : ChoiceRun(raw, MaxPrompts)
    \/ \E raw \in RawInputs : ChoicePreview(raw, MaxPrompts)
    \/ \E raw \in RawInputs : ChoiceAnalyze(raw, MaxPrompts)
    \/ \E raw \in RawInputs : ChoiceSave(raw, MaxPrompts)
    \/ \E raw \in RawInputs : ChoiceQuit(raw, MaxPrompts)
    \/ \E raw \in RawInputs : ChoiceInvalid(raw, MaxPrompts)

SpecInteract == InitInteract /\ [][NextInteract]_vars

\* ------------------------------------------------- what the stream delivered
\* (read off the messages the stream yielded, not off run_interactive's locals)

\* the message carries a non-empty structured output
CarriesOutput(m) ==
    /\ m.cls = "ResultMessage"
    /\ m.structured_output # None
    /\ m.structured_output # Some(EmptyDict)

SomeOutput == \E i \in DOMAIN history : CarriesOutput(history[i])

\* the structured output of the last message that carries one
LastOutput ==
    LET last == CHOOSE i \in DOMAIN history :
                   /\ CarriesOutput(history[i])
                   /\ \A j \in DOMAIN history : CarriesOutput(history[j]) => j <= i
    IN Val(history[last].structured_output)

\* a field of a structured output, "" when it is absent
Field(out, k) == IF k \in DOMAIN out THEN out[k] ELSE ""

\* the content blocks of a message that are dispatched
MsgBlocks(m) ==
    IF m.cls \in {"AssistantMessage", "UserMessage"} /\ "content" \in DOMAIN m
    THEN m.content ELSE <<>>

RECURSIVE Flatten(_)
Flatten(messages) ==
    IF messages = <<>> THEN <<>>
    ELSE Flatten(SubSeq(messages, 1, Len(messages) - 1))
           \o MsgBlocks(messages[Len(messages)])

\* the blocks dispatched so far, in order
Dispatched ==
    IF pc = "block"
    THEN Flatten(SubSeq(history, 1, Len(history) - 1)) \o SubSeq(MsgBlocks(msg), 1, bi - 1)
    ELSE Flatten(history)

IsToolUse(b) == b.type = "ToolUseBlock"
IsToolResult(b) == b.type = "ToolResultBlock"
IsToolEvent(b) == IsToolUse(b) \/ IsToolResult(b)

\* the tool-invocation and tool-result events seen, in order
ToolEvents == SelectSeq(Dispatched, IsToolEvent)

\* a shell-execution invocation with the non-empty call id x
IsShellCall(b, x) == IsToolUse(b) /\ b.name = "Bash" /\ b.id = x /\ x # ""
\* a tool result with the call id x
IsResultFor(b, x) == IsToolResult(b) /\ "tool_use_id" \in DOMAIN b /\ b.tool_use_id = x

\* some shell-execution invocation with call id x was dispatched
EverTracked(blocks, x) == \E i \in DOMAIN blocks : IsShellCall(blocks[i], x)

\* the last shell-execution invocation with call id x has had no result yet
Outstanding(blocks, x) ==
    \E i \in DOMAIN blocks :
       /\ IsShellCall(blocks[i], x)
       /\ \A j \in DOMAIN blocks : j > i => ~IsResultFor(blocks[j], x)

\* the block about to be dispatched
CurrentBlock == Content(msg)[bi]

AtToolResult == pc = "block" /\ IsToolResult(CurrentBlock)

LastPrinted == IF printed = <<>> THEN "" ELSE printed[Len(printed)]

NoEffects == spawned = <<>> /\ files = <<>> /\ nested = <<>>

\* ------------------------------------------------------------------ claims

\* C1: when the run finishes a stream with a captured terminal event, the
\* record inserted into the log store carries the event's cost, the question,
\* the captured answer, the ordered list of the tool events seen and the
\* suggested action text.
C1_RecordCarriesQuery ==
    \A i \in DOMAIN db :
       /\ db[i].cost_usd = Val(cost)
       /\ db[i].question = Prefix(question, QuestionLimit)
       /\ db[i].answer = Field(LastOutput, "answer")
       /\ db[i].log = ToolEvents
       /\ db[i].suggested =
             (IF Field(LastOutput, "suggested_script") # ""
              THEN Field(LastOutput, "suggested_script")
              ELSE Field(LastOutput, "suggested_command"))

\* C2: in every run in which a terminal structured-output event is captured,
\* exactly one record has been inserted into the log store when the run ends.
C2_ExactlyOneRecord == (pc = "done" /\ SomeOutput) => Len(db) = 1

\* C3: if the stream ends without any event carrying a non-empty structured
\* output, the run inserts no record, never enters the post-answer
\* interaction, prints "No response received" and returns normally.
C3_NoResponse ==
    (~SomeOutput /\ pc \notin {"stream", "block", "capture"}) =>
       /\ pc \in {"render", "done"}
       /\ pc = "render" => ENABLED NoResponse
       /\ db = <<>>
       /\ n_prompts = 0 /\ raw_input = None /\ NoEffects
       /\ pc = "done" =>
             /\ LastPrinted = "[red]No response received[/red]"
             /\ \A i \in DOMAIN printed : ~StartsWith(printed[i], "[dim]  -> ")

\* C3's case: a stream of tool events that ended with no structured output
C3_Witness ==
    /\ pc = "done"
    /\ ~SomeOutput
    /\ \E i \in DOMAIN ToolEvents : IsToolUse(ToolEvents[i])
    /\ \E i \in DOMAIN ToolEvents : IsToolResult(ToolEvents[i])
    /\ LastPrinted = "[red]No response received[/red]"

\* C4: once a terminal structured-output event is captured, no later event
\* changes the captured answer, command, script or cost, nor the spinner
\* index, the status text or the remembered shell-call mapping.
C4_StopsAfterTerminal ==
    [][~IsNone(result) =>
         UNCHANGED <<result, cost, spinner_idx, status, bash_tool_ids>>]_vars

\* C5: for a tracked shell invocation with call id x, the first result with
\* id x that arrives afterwards is resolved (the entry is removed and at most
\* one preview line is printed); a further result with id x, with no new
\* invocation of x in between, finds no match: it prints nothing and changes
\* no state of the query.
C5_ResolvedOnce ==
    [][(AtToolResult /\ "tool_use_id" \in DOMAIN CurrentBlock
          /\ EverTracked(Dispatched, CurrentBlock.tool_use_id)) =>
         LET x == CurrentBlock.tool_use_id
         IN IF Outstanding(Dispatched, x)
            THEN /\ x \in DOMAIN bash_tool_ids
                 /\ DOMAIN bash_tool_ids' = DOMAIN bash_tool_ids \ {x}
                 /\ \A y \in DOMAIN bash_tool_ids' : bash_tool_ids'[y] = bash_tool_ids[y]
                 /\ Len(printed') <= Len(printed) + 1
                 /\ UNCHANGED <<result, cost, spinner_idx, status, db>>
            ELSE /\ printed' = printed
                 /\ UNCHANGED <<query_vars, db>>]_vars

\* C5's case: an invocation of t1, its result (one preview printed), then a
\* second result for t1, which printed nothing
C5_Witness ==
    /\ pc = "stream"
    /\ history = <<AssistantMessage(<<BashLs>>), UserMessage(<<ResultLs>>),
                   UserMessage(<<ResultLs>>)>>
    /\ printed = <<"[dim]  $ ls -la -> file1...[/dim]">>
    /\ bash_tool_ids = <<>>

\* the call id of the result block is missing or is no shell invocation's id
Unmatched(b) ==
    \/ "tool_use_id" \notin DOMAIN b
    \/ ~EverTracked(Dispatched, b.tool_use_id)

\* C6: a tool result whose call id matches no remembered invocation (never
\* registered, a non-shell tool's id, or no id) is dropped silently: the
\* mapping, the spinner index, the captured result and the cost are unchanged,
\* nothing is printed, and the stream keeps being processed.
C6_UnmatchedDropped ==
    [][(AtToolResult /\ Unmatched(CurrentBlock)) =>
         /\ UNCHANGED <<bash_tool_ids, spinner_idx, status, result, cost, printed, db>>
         /\ pc' \in {"block", "capture"}]_vars

\* C6's case: the result of a Read call was dropped while a shell call is
\* still remembered
C6_Witness ==
    /\ pc = "stream"
    /\ history = <<AssistantMessage(<<Frobnicate, BashLs, ReadHosts>>),
                   UserMessage(<<ResultRead>>), UserMessage(<<ResultNoId>>)>>
    /\ printed = <<>>
    /\ DOMAIN bash_tool_ids = {"t1"}

\* the tool-invocation blocks dispatched so far
ToolUseCount == Len(SelectSeq(Dispatched, IsToolUse))

\* C7: at every point of a query the spinner index is N mod
\* len(SPINNER_STYLES), N being the number of tool-invocation blocks processed
\* so far, whatever the tools and whatever results are interleaved.
C7_SpinnerIndex ==
    /\ spinner_idx = ToolUseCount % Len(SPINNER_STYLES)
    /\ status.spinner = SPINNER_STYLES[(ToolUseCount % Len(SPINNER_STYLES)) + 1]

\* C7's case: the index is back at 0 after eight invocations of four
\* different tools, with a result in between
C7_Witness ==
    /\ ToolUseCount = Len(SPINNER_STYLES)
    /\ spinner_idx = 0
    /\ \E i \in DOMAIN ToolEvents :
          /\ IsToolResult(ToolEvents[i])
          /\ \E j \in DOMAIN ToolEvents : j > i /\ IsToolUse(ToolEvents[j])
    /\ {"Bash", "Read", "StructuredOutput", "Frob"} \subseteq
          {ToolEvents[i].name : i \in {j \in DOMAIN ToolEvents : IsToolUse(ToolEvents[j])}}

\* C8: when the terminal event sets both suggested_command and
\* suggested_script non-empty, the interaction is entered with the script and
\* in script mode; the command is used only when the script is absent or
\* empty, and then in command mode.
C8_ScriptPreferred ==
    LET s == Field(LastOutput, "suggested_script")
        c == Field(LastOutput, "suggested_command")
    IN /\ pc \in {"handle", "prompt"} =>
             /\ s # "" => script = s /\ is_multiline
             /\ s = "" => c # "" /\ script = c /\ ~is_multiline
       /\ (pc = "done" /\ SomeOutput /\ n_prompts = 0) => s = "" /\ c = ""

\* C8's case: both fields set, the prompt shown for the script
C8_Witness ==
    /\ pc = "prompt"
    /\ LastOutput = OutBoth
    /\ script = BashScript
    /\ is_multiline

\* C8's other case: an empty script, the prompt shown for the command
C8_WitnessCommand ==
    /\ pc = "prompt"
    /\ LastOutput = OutEmptyScript
    /\ script = "ls"
    /\ ~is_multiline

\* a line was read at the choice prompt in this step
ReadsLine == pc = "prompt" /\ n_prompts' = n_prompts + 1

\* the lines that are "q" or empty once stripped and lower-cased
QuitInputs == {"q", "", " Q\n"}

\* C9: "q" or an empty line (after stripping and lower-casing) at the choice
\* prompt ends the interaction at once with no side effect: no child process,
\* no file, no nested query; for scripts and commands, at any iteration.
C9_QuitNoEffect ==
    [][(ReadsLine /\ Val(raw_input') \in QuitInputs) =>
         /\ pc' = "done"
         /\ UNCHANGED <<spawned, files, nested, db, script, is_multiline>>
         /\ printed' = Append(printed, "")]_vars

\* C9's case: an upper-case Q typed at the third prompt of a command
C9_Witness ==
    /\ pc = "done"
    /\ n_prompts = 3
    /\ raw_input = Some(" Q\n")
    /\ ~is_multiline
    /\ spawned = <<>> /\ files = <<>>

\* the lines that are no available choice in a mode
InvalidInputs(multiline) == IF multiline THEN {"x", "rq"} ELSE {"x", "rq", "p", "s", "S"}

\* C10: a line that is not an available choice (p and s are unavailable for
\* a bare command) prints "Invalid choice", runs nothing, previews nothing,
\* writes no file, issues no query and returns to the same prompt.
C10_InvalidChoice ==
    [][(ReadsLine /\ Val(raw_input') \in InvalidInputs(is_multiline)) =>
         /\ printed' = printed \o <<"", "[dim]Invalid choice[/dim]">>
         /\ pc' = "prompt"
         /\ UNCHANGED <<spawned, files, nested, db, script, is_multiline>>]_vars

\* C10's case: p typed for a bare command
C10_Witness ==
    /\ pc = "prompt"
    /\ ~is_multiline
    /\ raw_input = Some("p")
    /\ LastPrinted = "[dim]Invalid choice[/dim]"
    /\ NoEffects

\* C11: choosing "r" executes the action exactly once as a child process and
\* ends the interaction without another prompt whatever the exit status; a
\* non-zero status is only reported as a warning line.
C11_RunTerminal ==
    [][(ReadsLine /\ Val(raw_input') \in {"r"}) =>
         /\ Len(spawned') = Len(spawned) + 1
         /\ SubSeq(spawned', 1, Len(spawned)) = spawned
         /\ spawned'[Len(spawned')].argv[3] = script
         /\ Len(spawned') = 1
         /\ pc' = "done"
         /\ LET status_ == spawned'[Len(spawned')].returncode
                added == SubSeq(printed', Len(printed) + 1, Len(printed'))
            IN /\ SubSeq(printed', 1, Len(printed)) = printed
               /\ status_ = 0 => Len(added) = 2
               /\ status_ # 0 =>
                     /\ Len(added) = 3
                     /\ StartsWith(added[3], "\n[red]Script exited with code ")
         /\ UNCHANGED <<files, nested, db>>]_vars

\* C11's case: the child exited with status 1 after an earlier prompt
\* iteration, the warning was printed and the interaction is over
C11_Witness ==
    /\ pc = "done"
    /\ n_prompts = 2
    /\ raw_input = Some("r")
    /\ Len(spawned) = 1
    /\ spawned[1].returncode = 1
    /\ LastPrinted = "\n[red]Script exited with code 1[/red]"

\* C11's other case: the child exited with status 0
C11_WitnessZero ==
    /\ pc = "done"
    /\ raw_input = Some("r")
    /\ Len(spawned) = 1
    /\ spawned[1].returncode = 0

\* C12: once the interaction is over, the persisted query's executed flag
\* (script_run) is true exactly when its suggested action was run with "r".
C12_ExecutedFlag ==
    pc = "done" =>
        \A i \in DOMAIN db : (db[i].script_run = 1) <=> (spawned # <<>>)

\* C13: choosing "a" runs one nested query (no tools allowed, prompt built
\* from the action) and returns to the choice prompt with the same action and
\* mode; the outer query's captured result, cost, status and tool-event
\* tracking, the log store, the child processes and the files are unchanged.
C13_AnalyzeFrame ==
    [][(ReadsLine /\ Val(raw_input') \in {"a"}) =>
         /\ pc' = "prompt"
         /\ UNCHANGED <<script, is_multiline>>
         /\ UNCHANGED <<result, cost, spinner_idx, status, bash_tool_ids>>
         /\ UNCHANGED <<question, history, msg, bi, n_msgs>>
         /\ UNCHANGED <<db, spawned, files>>
         /\ Len(nested') = Len(nested) + 1
         /\ SubSeq(nested', 1, Len(nested)) = nested
         /\ Contains(nested'[Len(nested')].prompt, script)
         /\ nested'[Len(nested')].allowed_tools = <<>>]_vars

\* C13's case: the action of a logged query with a cost and an outstanding
\* Bash call was analyzed twice and the prompt is shown again
C13_Witness ==
    /\ pc = "prompt"
    /\ n_prompts = 2
    /\ Len(nested) = 2
    /\ Len(db) = 1
    /\ cost # None
    /\ result # None
    /\ DOMAIN bash_tool_ids # {}
    /\ spawned = <<>>
    /\ files = <<>>

\* the classification as the order of C14 states it, leading blanks ignored
ClassifiedByOrder(s) ==
    LET marker == FirstLine(Strip(s))
    IN IF StartsWith(marker, "#!") /\ Contains(marker, "python") THEN "python"
       ELSE IF StartsWith(marker, "#!") THEN "bash"
       ELSE IF Contains(s, "def ") \/ Contains(s, "import ") THEN "python"
       ELSE "bash"

\* C14: every action that is run is run under the interpreter of this fixed
\* classification order: (1) a first line that is an interpreter marker naming
\* python gives python; (2) otherwise any interpreter marker gives bash, even
\* with "def " or "import " in the body; (3) otherwise "def " or "import " in
\* the text gives python; (4) otherwise bash.
C14_ClassificationOrder ==
    \A i \in DOMAIN spawned :
        spawned[i].argv[1] = Interpreter(ClassifiedByOrder(spawned[i].argv[3]))

\* the argument a status text shows between "(" and ")[/]"
Detail(text) ==
    LET open == CHOOSE i \in 1..Len(text) :
                    CharAt(text, i) = "(" /\ \A j \in 1..(i - 1) : CharAt(text, j) # "("
    IN SubSeq(text, open + 1, Len(text) - 4)

\* the limit in use for a tool's argument
LimitInUse(name) ==
    CASE name \in {"Bash", "WebFetch"} -> 30
      [] name \in {"Grep", "Glob"} -> 20
      [] name = "WebSearch" -> 25

\* the last tool invocation dispatched
LastToolUse == LET uses == SelectSeq(Dispatched, IsToolUse) IN uses[Len(uses)]

\* C15: the argument a status text shows is the invocation's argument cut by
\* the rule (longer than the limit: its first limit characters and "...";
\* otherwise itself), and truncating the shown string again with the same
\* limit (30, 20, 25) yields the same string.
C15_TruncateIdempotent ==
    ToolUseCount > 0 =>
        LET limit == LimitInUse(LastToolUse.name)
            given == LastToolUse.input[CHOOSE k \in DOMAIN LastToolUse.input : TRUE]
            shown == Detail(status.text)
        IN /\ Len(given) > limit => shown = Prefix(given, limit) \o "..."
           /\ Len(given) <= limit => shown = given
           /\ Truncate(shown, limit) = shown
           /\ Truncate(Truncate(given, limit), limit) = Truncate(given, limit)

\* C15's case: a search pattern one character over its limit is shown cut, and
\* the shown string is itself longer than the limit
C15_Witness ==
    /\ ToolUseCount > 0
    /\ LastToolUse.name = "Grep"
    /\ Len(LastToolUse.input.pattern) = 21
    /\ Len(Detail(status.text)) = 23
    /\ Detail(status.text) = "01234567890123456789..."

\* the captured answer is among the lines printed
AnswerShown ==
    /\ result # None
    /\ \E i \in DOMAIN printed : printed[i] = Markdown(Val(result).answer)

\* C16: with a captured result, the answer has been rendered before the
\* insert into the log store happens or fails; a failing insert leaves the
\* run in the raised state with the answer already on the screen.
C16_RenderedBeforeInsert ==
    [][((db' # db \/ pc' = "raised") => AnswerShown)
       /\ (pc' = "raised" =>
              /\ db' = db
              /\ SubSeq(printed', 1, Len(printed)) = printed
              /\ UNCHANGED <<result, spawned, files, nested>>)]_vars

\* C16's case: the insert raised after an answer with a suggested script and
\* a cost was captured and rendered
C16_Witness ==
    /\ pc = "raised"
    /\ AnswerShown
    /\ Val(result).answer = "Use the script"
    /\ cost = Some(20)
    /\ db = <<>>

\* the command of the last shell-execution invocation with call id x
LastCommand(blocks, x) ==
    LET j == CHOOSE j \in DOMAIN blocks :
                 /\ IsShellCall(blocks[j], x)
                 /\ \A k \in DOMAIN blocks : k > j => ~IsShellCall(blocks[k], x)
    IN blocks[j].input.command

\* two shell-execution invocations with call id x and no result for x since
\* the earlier one
RegisteredTwice(blocks, x) ==
    \E i, j \in DOMAIN blocks :
       /\ i < j
       /\ IsShellCall(blocks[i], x)
       /\ IsShellCall(blocks[j], x)
       /\ \A k \in DOMAIN blocks : k > i => ~IsResultFor(blocks[k], x)

\* the block about to be dispatched is a shell-execution invocation whose call
\* id is still outstanding
AtDuplicateCall ==
    /\ pc = "block"
    /\ IsToolUse(CurrentBlock)
    /\ IsShellCall(CurrentBlock, CurrentBlock.id)
    /\ Outstanding(Dispatched, CurrentBlock.id)

\* the block about to be dispatched is the result for a call id registered twice
AtResultOfDuplicate ==
    /\ AtToolResult
    /\ "tool_use_id" \in DOMAIN CurrentBlock
    /\ RegisteredTwice(Dispatched, CurrentBlock.tool_use_id)

\* C17: a second shell-execution invocation with a call id that is still
\* outstanding overwrites the remembered command without error and without
\* adding an entry; the next result for that id is shown with the later
\* command and removes the single entry, so one more result finds no match.
C17_LastWriteWins ==
    [][/\ AtDuplicateCall =>
            /\ CurrentBlock.id \in DOMAIN bash_tool_ids
            /\ DOMAIN bash_tool_ids' = DOMAIN bash_tool_ids
            /\ bash_tool_ids'[CurrentBlock.id] = CurrentBlock.input.command
            /\ \A y \in DOMAIN bash_tool_ids \ {CurrentBlock.id} :
                  bash_tool_ids'[y] = bash_tool_ids[y]
            /\ pc' \in {"block", "capture"}
            /\ printed' = printed
       /\ AtResultOfDuplicate =>
            LET x == CurrentBlock.tool_use_id
                later == LastCommand(Dispatched, x)
            IN /\ x \in DOMAIN bash_tool_ids
               /\ x \notin DOMAIN bash_tool_ids'
               /\ ~Outstanding(Dispatched', x)
               /\ IF "str" \in DOMAIN CurrentBlock.content /\ CurrentBlock.content.str # ""
                  THEN /\ Len(printed') = Len(printed) + 1
                       /\ StartsWith(printed'[Len(printed')],
                                     "[dim]  $ " \o Prefix(later, 40)
                                        \o (IF Len(later) > 40 THEN "..." ELSE "")
                                        \o " -> ")
                  ELSE printed' = printed]_vars

\* C17's case: ls and then find were registered under t1; the first result
\* for t1 was shown with the find command, the second printed nothing
C17_Witness ==
    /\ pc = "stream"
    /\ history = <<AssistantMessage(<<BashLs, BashFind>>), UserMessage(<<ResultLs>>),
                   UserMessage(<<ResultLs>>)>>
    /\ Len(printed) = 1
    /\ StartsWith(printed[1], "[dim]  $ find . -name")
    /\ bash_tool_ids = <<>>

\* the non-empty call ids of the shell-execution invocations dispatched
ShellCallIds ==
    { Dispatched[i].id :
        i \in { j \in DOMAIN Dispatched :
                  IsToolUse(Dispatched[j]) /\ IsShellCall(Dispatched[j], Dispatched[j].id) } }

\* C18: at every point of a query the keys of bash_tool_ids are exactly the
\* non-empty call ids of the Bash invocations seen so far that have had no
\* result with the same id since their last registration; other tools add no
\* entry and a matching result removes the entry whatever its output.
C18_OutstandingShellCalls ==
    DOMAIN bash_tool_ids = { x \in ShellCallIds : Outstanding(Dispatched, x) }

\* C18's case: t1 was removed by a result with an empty output, t2 is still
\* outstanding, and the Read, StructuredOutput and unknown-tool invocations
\* left no entry
C18_Witness ==
    /\ pc = "stream"
    /\ history = <<AssistantMessage(<<Frobnicate, BashLs, ReadHosts>>),
                   AssistantMessage(<<BashPwd, ReadHosts, Finishing, Frobnicate>>),
                   UserMessage(<<ResultEmpty>>)>>
    /\ DOMAIN bash_tool_ids = {"t2"}
    /\ bash_tool_ids["t2"] = "pwd"
    /\ printed = <<>>

====
